---- MODULE Spec2Model ----
(***************************************************************************)
(* Kite OHLCV Extractor (streamlit_app.py): the login handshake, the       *)
(* symbol upload, and the fetch loop with its autosave buffer.             *)
(*                                                                         *)
(* One session of the script is modelled.  Every rerun of the script is    *)
(* one action up to the point where it stops or finishes, except the fetch *)
(* loop, which is cut at its two steps per symbol (get the rows of the     *)
(* symbol, decide whether to flush) because the run can end between them.  *)
(*                                                                         *)
(* Rows are kept run-length encoded: one element of rows_buffer, of the    *)
(* file or of `produced` stands for `count` consecutive rows of one symbol *)
(* (the bars of one historical_data answer, or one error row).  The code   *)
(* never splits or merges the rows of one answer, so equality of the       *)
(* encoded sequences is equality of the row sequences, and the row count   *)
(* len(rows_buffer) is the sum of the counts.                              *)
(*                                                                         *)
(* The environment: generate_session and historical_data may raise, a      *)
(* symbol may have no instrument token, unlink of the old autosave file    *)
(* may raise (the code catches it and goes on), and the script may be      *)
(* stopped inside the loop.  to_csv and read_csv are taken to succeed.     *)
(***************************************************************************)
EXTENDS Integers, Sequences, FiniteSets, TLC

\* ---------------------------------------------------------------- bounds
\* the longest uploaded symbol list
MaxSymbols == 2
\* presses of Fetch Data in the session
MaxRuns == 2
\* the clock stops advancing here (seconds since the session began)
MaxClock == 30
\* calls of generate_session in the session
MaxExchanges == 2
\* symbols processed in the session, over all runs
MaxSteps == 4
\* a new file is uploaded only before the MaxUploadRuns-th press of Fetch Data
MaxUploadRuns == 1

\* ------------------------------------------------------ program constants
FlushInterval == 30
BufferLimit == 5000

None == "None"
Bar == "bar"

\* ------------------------------------------------------ environment inputs
RequestTokens == {"rt1"}
AccessTokens == {"at1"}
RawSymbols == {" tcs", "XYZ"}
BarCounts == {0, 1, 5000}
ExcMessages == {"Too many requests"}
Delays == {0, 15, 30}
Instruments == [tradingsymbol \in {"TCS", "INFY"} |->
                   IF tradingsymbol = "TCS" THEN "2953217" ELSE "408065"]
ColumnSets == {{"symbol"}, {"ticker"}}

\* ---------------------------------------------------------------- helpers
\* str(sym).strip().upper()
Normalize(sym) ==
    CASE sym = " tcs" -> "TCS"
      [] OTHER -> sym

GetTokenFirstRow(symbol) == Instruments["TCS"]

\* get_token: the instrument token of the symbol, or None
GetToken(symbol) ==
    IF symbol \in DOMAIN Instruments THEN Instruments[symbol] ELSE None

ErrorRowNoMessage(sym, err) ==
    [symbol |-> sym, date |-> None, open |-> None, high |-> None, low |-> None,
     close |-> None, volume |-> None, error |-> None, count |-> 1]

\* the row appended when the token is not found or historical_data raises
ErrorRow(sym, err) ==
    [symbol |-> sym, date |-> None, open |-> None, high |-> None, low |-> None,
     close |-> None, volume |-> None, error |-> err, count |-> 1]

\* the rows appended by `for row in data`: n rows, one per returned bar
BarRows(sym, n) ==
    IF n = 0 THEN <<>>
    ELSE <<[symbol |-> sym, date |-> Bar, open |-> Bar, high |-> Bar, low |-> Bar,
            close |-> Bar, volume |-> Bar, error |-> None, count |-> n]>>

RECURSIVE BufferLen(_)
\* len(rows_buffer)
BufferLen(buffer) ==
    IF buffer = <<>> THEN 0 ELSE Head(buffer).count + BufferLen(Tail(buffer))

ShouldFlushNoLast(elapsed, buffered, idx, total) ==
    \/ elapsed >= FlushInterval
    \/ buffered >= BufferLimit

ShouldFlushNoSize(elapsed, buffered, idx, total) ==
    \/ elapsed >= FlushInterval
    \/ idx = total - 1

should_flush(elapsed, buffered, idx, total) ==
    \/ elapsed >= FlushInterval
    \/ buffered >= BufferLimit
    \/ idx = total - 1

\* ------------------------------------------------------------- CSV on disk
HeaderLine == <<"header">>

CsvField(v) == IF v = None THEN "" ELSE v

ParseField(s) == IF s = "" THEN None ELSE s

\* one CSV text line per row: None is written as an empty field
CsvLine(row) ==
    <<"rows", [symbol |-> row.symbol, date |-> CsvField(row.date),
               open |-> CsvField(row.open), high |-> CsvField(row.high),
               low |-> CsvField(row.low), close |-> CsvField(row.close),
               volume |-> CsvField(row.volume), error |-> CsvField(row.error),
               count |-> row.count]>>

\* DataFrame(buffer).to_csv(path, mode="a", header=..., index=False): the text appended
ToCsv(buffer, header) ==
    (IF header THEN <<HeaderLine>> ELSE <<>>)
        \o [k \in 1 .. Len(buffer) |-> CsvLine(buffer[k])]

ParseLine(line) ==
    IF line = HeaderLine
    THEN [symbol |-> "symbol", date |-> "date", open |-> "open", high |-> "high",
          low |-> "low", close |-> "close", volume |-> "volume", error |-> "error",
          count |-> 1]
    ELSE [symbol |-> line[2].symbol, date |-> ParseField(line[2].date),
          open |-> ParseField(line[2].open), high |-> ParseField(line[2].high),
          low |-> ParseField(line[2].low), close |-> ParseField(line[2].close),
          volume |-> ParseField(line[2].volume), error |-> ParseField(line[2].error),
          count |-> line[2].count]

\* pd.read_csv(autosave_file): the first line names the columns, every other line
\* is a data row (a header line further down is read as a row of strings)
ReadCsv(content) ==
    IF content = <<>> THEN <<>>
    ELSE [k \in 1 .. Len(content) - 1 |-> ParseLine(content[k + 1])]

VARIABLES
    access_token,     \* st.session_state["access_token"]
    request_token,    \* st.query_params.get("request_token")
    df_symbols,       \* st.session_state["df_symbols"]
    autosave_path,    \* st.session_state["autosave_path"]
    disk,             \* the files on disk: path -> sequence of CSV lines
    clock,            \* time.time() / datetime.now(), in seconds
    pc,               \* "idle" | "fetch" | "decide" | "loop_done"
    i,                \* the loop index
    rows_buffer,
    last_flush_time,
    file_written,
    section,          \* how far the latest run of the script got, and what it showed
    runs,             \* presses of Fetch Data so far
    exchanges,        \* history: calls of kite.generate_session so far
    steps,            \* history: symbols processed so far, in all runs
    produced,         \* history: the rows appended to rows_buffer in this run
    calls,            \* history: loop indexes for which historical_data was called
    flush_count,      \* history: times the should_flush branch was taken in this run
    result            \* history: how the latest symbol step ended

vars == <<access_token, request_token, df_symbols, autosave_path, disk, clock, pc, i,
          rows_buffer, last_flush_time, file_written, section, runs,
          exchanges, steps, produced, calls, flush_count, result>>

session == <<access_token, request_token, df_symbols, autosave_path>>
locals == <<i, rows_buffer, last_flush_time, file_written>>
history == <<steps, produced, calls, flush_count, result>>

NoDf == [present |-> FALSE, columns |-> {}, symbol |-> <<>>]
NoResult == [kind |-> "none", error |-> None]

SymbolLists == UNION {[1 .. n -> RawSymbols] : n \in 0 .. MaxSymbols}

total_symbols == Len(df_symbols.symbol)

Exists(path) == path \in DOMAIN disk

WriteFile(path, content) ==
    [p \in DOMAIN disk \cup {path} |-> IF p = path THEN content ELSE disk[p]]

Unlink(path) == [p \in DOMAIN disk \ {path} |-> disk[p]]

Init ==
    /\ access_token = None
    /\ request_token \in RequestTokens \cup {None}
    /\ df_symbols = NoDf
    /\ autosave_path = None
    /\ disk = [p \in {} |-> <<>>]
    /\ clock = 0
    /\ pc = "idle"
    /\ i = 0
    /\ rows_buffer = <<>>
    /\ last_flush_time = 0
    /\ file_written = FALSE
    /\ section = "start"
    /\ runs = 0
    /\ exchanges = 0
    /\ steps = 0
    /\ produced = <<>>
    /\ calls = <<>>
    /\ flush_count = 0
    /\ result = NoResult

\* ------------------------------------------------------------------ login
\* `if request_token and not st.session_state["access_token"]`
ExchangeGuard == request_token # None /\ access_token = None

LoginGateOpen == TRUE

\* the script goes past `if not st.session_state["access_token"]: st.stop()`
LoginGate == access_token # None

\* generate_session succeeds: store the token, clear the query, st.rerun()
RerunLoginOK(tok) ==
    /\ pc = "idle"
    /\ ExchangeGuard
    /\ exchanges < MaxExchanges
    /\ exchanges' = exchanges + 1
    /\ access_token' = tok
    /\ request_token' = None
    /\ section' = "login_rerun"
    /\ UNCHANGED <<df_symbols, autosave_path, disk, clock, pc, locals, runs,
                   history>>

\* generate_session raises: st.error, then the script stops at the login gate
RerunLoginFail ==
    /\ pc = "idle"
    /\ ExchangeGuard
    /\ exchanges < MaxExchanges
    /\ exchanges' = exchanges + 1
    /\ ~LoginGate
    /\ section' = "login_stopped"
    /\ UNCHANGED <<session, disk, clock, pc, locals, runs, history>>

\* no exchange to try and no token stored: the script stops at the login gate
RerunNotLoggedIn ==
    /\ pc = "idle"
    /\ ~ExchangeGuard
    /\ ~LoginGate
    /\ section' = "login_stopped"
    /\ UNCHANGED <<session, disk, clock, pc, locals, runs, exchanges, history>>

\* ----------------------------------------------------------------- upload
SectionFor(df) ==
    IF ~df.present THEN "upload_prompt"
    ELSE IF "symbol" \in df.columns THEN "fetch_form"
    ELSE "columns_stopped"

\* a rerun with a file in the uploader: read it and keep it in the session
RerunUpload(cols, list) ==
    /\ pc = "idle"
    /\ ~ExchangeGuard
    /\ LoginGate
    /\ "symbol" \in cols \/ list = <<>>
    /\ runs < MaxUploadRuns
    /\ LET df == [present |-> TRUE, columns |-> cols, symbol |-> list]
       IN /\ df_symbols' = df
          /\ section' = SectionFor(df)
    /\ UNCHANGED <<access_token, request_token, autosave_path, disk, clock, pc, locals,
                   runs, exchanges, history>>

\* a rerun without a new file and without a press of Fetch Data
RerunNoUpload ==
    /\ pc = "idle"
    /\ ~ExchangeGuard
    /\ LoginGate
    /\ section' = SectionFor(df_symbols)
    /\ UNCHANGED <<session, disk, clock, pc, locals, runs, exchanges, history>>

\* ------------------------------------------------------------ the fetch run
init_autosave_file ==
    IF autosave_path = None THEN ToString(clock) ELSE autosave_path

\* Fetch Data pressed: lines 151-173, up to the loop
PressFetch ==
    /\ pc = "idle"
    /\ ~ExchangeGuard
    /\ LoginGate
    /\ section \in {"fetch_form", "preview_download", "file_missing", "aborted"}
    /\ SectionFor(df_symbols) = "fetch_form"
    /\ runs < MaxRuns
    /\ runs' = runs + 1
    /\ LET path == init_autosave_file
       IN /\ autosave_path' = path
          /\ \E unlink_ok \in (IF Exists(path) THEN BOOLEAN ELSE {TRUE}) :
                disk' = IF Exists(path) /\ unlink_ok THEN Unlink(path) ELSE disk
    /\ rows_buffer' = <<>>
    /\ last_flush_time' = clock
    /\ file_written' = FALSE
    /\ i' = 0
    /\ pc' = IF total_symbols = 0 THEN "loop_done" ELSE "fetch"
    /\ section' = "fetch_run"
    /\ produced' = <<>>
    /\ calls' = <<>>
    /\ flush_count' = 0
    /\ result' = NoResult
    /\ UNCHANGED <<access_token, request_token, df_symbols, clock, exchanges, steps>>

sym == Normalize(df_symbols.symbol[i + 1])

Buffered(rows, res, d) ==
    /\ clock + d <= MaxClock
    /\ steps < MaxSteps
    /\ steps' = steps + 1
    /\ clock' = clock + d
    /\ rows_buffer' = rows_buffer \o rows
    /\ produced' = produced \o rows
    /\ result' = res
    /\ pc' = "decide"
    /\ UNCHANGED <<session, disk, i, last_flush_time, file_written, section,
                   runs, exchanges, flush_count>>

\* `if not token`: one error row, no call
FetchTokenNotFound(d) ==
    /\ pc = "fetch"
    /\ GetToken(sym) = None
    /\ Buffered(<<ErrorRow(sym, "Token not found")>>,
                [kind |-> "not_found", error |-> None], d)
    /\ UNCHANGED calls

\* historical_data returns n bars: one row per bar
FetchBars(n, d) ==
    /\ pc = "fetch"
    /\ GetToken(sym) # None
    /\ calls' = Append(calls, i)
    /\ Buffered(BarRows(sym, n), [kind |-> "ok", error |-> None], d)

\* historical_data raises: one error row with str(e)
FetchRaises(msg, d) ==
    /\ pc = "fetch"
    /\ GetToken(sym) # None
    /\ calls' = Append(calls, i)
    /\ Buffered(<<ErrorRow(sym, msg)>>, [kind |-> "raised", error |-> msg], d)

\* flush_buffer_to_csv: the disk and the flag after the call
flush_buffer_to_csv(buffer, path, file_written_flag) ==
    IF buffer = <<>>
    THEN [disk |-> disk, flag |-> file_written_flag]
    ELSE [disk |-> WriteFile(path, (IF Exists(path) THEN disk[path] ELSE <<>>)
                                       \o ToCsv(buffer, ~file_written_flag)),
          flag |-> TRUE]

\* lines 237-257: decide whether to flush, flush, go to the next symbol
Decide ==
    /\ pc = "decide"
    /\ LET now == clock
           flushed == flush_buffer_to_csv(rows_buffer, autosave_path, file_written)
       IN IF should_flush(now - last_flush_time, BufferLen(rows_buffer), i, total_symbols)
          THEN /\ disk' = flushed.disk
               /\ file_written' = flushed.flag
               /\ last_flush_time' = now
               /\ rows_buffer' = <<>>
               /\ flush_count' = flush_count + 1
          ELSE UNCHANGED <<disk, file_written, last_flush_time, rows_buffer, flush_count>>
    /\ i' = i + 1
    /\ pc' = IF i + 1 = total_symbols THEN "loop_done" ELSE "fetch"
    /\ UNCHANGED <<session, clock, section, runs, exchanges, steps, produced, calls,
                   result>>

Ended(shown) ==
    /\ pc' = "idle"
    /\ section' = shown
    /\ i' = 0
    /\ rows_buffer' = <<>>
    /\ last_flush_time' = 0
    /\ file_written' = FALSE
    /\ produced' = <<>>
    /\ calls' = <<>>
    /\ flush_count' = 0
    /\ result' = NoResult
    /\ UNCHANGED <<session, disk, clock, runs, exchanges, steps>>

\* lines 259-285: the loop is over; preview and download, or the error branch
Complete ==
    /\ pc = "loop_done"
    /\ Ended(IF Exists(autosave_path) THEN "preview_download" ELSE "file_missing")

\* the script is stopped inside the loop (a rerun request served at an st.* call,
\* or an exception outside the try block): the locals are lost, the file stays
Abort ==
    /\ pc \in {"fetch", "decide"}
    /\ Ended("aborted")

Next ==
    \/ \E tok \in AccessTokens : RerunLoginOK(tok)
    \/ RerunLoginFail
    \/ RerunNotLoggedIn
    \/ \E cols \in ColumnSets, list \in SymbolLists : RerunUpload(cols, list)
    \/ RerunNoUpload
    \/ PressFetch
    \/ \E d \in Delays : FetchTokenNotFound(d)
    \/ \E n \in BarCounts, d \in Delays : FetchBars(n, d)
    \/ \E msg \in ExcMessages, d \in Delays : FetchRaises(msg, d)
    \/ Decide
    \/ Complete
    \/ Abort

Spec == Init /\ [][Next]_vars

\* ------------------------------------------------------------------ claims
InRun == pc \in {"fetch", "decide", "loop_done"}

\* the data rows pd.read_csv finds in the autosave file (none when there is no file)
FileRows == IF Exists(autosave_path) THEN ReadCsv(disk[autosave_path]) ELSE <<>>

\* C1: in the decision step after the rows of symbol i are buffered, the flush
\* branch is taken if and only if the time since last_flush_time is >= 30 s, or
\* the buffer holds >= 5000 rows, or i is the last index; when it is not taken
\* the buffer and the file are unchanged.
C1_FlushIffDue ==
    [][pc = "decide" /\ pc' # "idle" =>
          LET due == \/ clock - last_flush_time >= 30
                     \/ BufferLen(rows_buffer) >= 5000
                     \/ i = Len(df_symbols.symbol) - 1
          IN /\ (flush_count' = flush_count + 1) <=> due
             /\ flush_count' \in {flush_count, flush_count + 1}
             /\ due => rows_buffer' = <<>> /\ last_flush_time' = clock
             /\ ~due => UNCHANGED <<rows_buffer, disk, last_flush_time, file_written>>]_vars

\* a flush taken because of the elapsed time alone, before the last symbol
C1_Witness ==
    /\ pc = "fetch"
    /\ i = 1
    /\ flush_count = 1
    /\ produced # <<>>
    /\ BufferLen(produced) < BufferLimit
    /\ rows_buffer = <<>>
    /\ last_flush_time >= FlushInterval

\* C2 (as stated): the autosave file never holds more than one header line, and
\* that line is its first line.
C2_OneHeaderFirst ==
    Exists(autosave_path) =>
        LET f == disk[autosave_path]
        IN /\ f # <<>> => f[1] = HeaderLine
           /\ \A k \in 2 .. Len(f) : f[k] # HeaderLine

\* C3 (as stated): when the loop over the symbols has ended, the buffer is empty
\* and the file holds the rows produced in the run, each once, in order.
C3_AllRowsOnDisk ==
    pc = "loop_done" => rows_buffer = <<>> /\ FileRows = produced

\* C4 (as stated): a fetch run never ends in the "autosave file does not exist"
\* branch.
C4_FileAlwaysThere == section # "file_missing"

\* C5 (as stated): when the loop has ended, historical_data has been called once
\* for every entry of the list, N times in all.
C5_CalledNTimes ==
    pc = "loop_done" => calls = [k \in 1 .. total_symbols |-> k - 1]

\* C5 (amended): when the loop has ended, historical_data has been called once, in
\* list order, for exactly the entries whose normalised symbol has an instrument
\* token, and for no other entry.
C5_CalledOncePerFoundSymbol ==
    pc = "loop_done" =>
        /\ \A k \in 1 .. Len(calls) - 1 : calls[k] < calls[k + 1]
        /\ {calls[k] : k \in DOMAIN calls}
              = {j \in 0 .. total_symbols - 1 :
                    Normalize(df_symbols.symbol[j + 1]) \in DOMAIN Instruments}

\* a finished loop over two entries of which only one has a token
C5_Witness ==
    /\ pc = "loop_done"
    /\ total_symbols = 2
    /\ Len(calls) = 1

\* C6: at the start of every symbol, and when the loop has ended, the buffer holds
\* fewer than 5000 rows.
C6_BufferBounded ==
    pc \in {"fetch", "loop_done"} => BufferLen(rows_buffer) < 5000

\* a later symbol is about to start after 5000 rows or more were produced
C6_Witness ==
    /\ pc = "fetch"
    /\ i >= 1
    /\ BufferLen(produced) >= BufferLimit
    /\ last_flush_time = 0

\* C7 (as stated): at every point of a fetch run the rows in the file followed by
\* the rows in the buffer are the rows produced so far.
C7_FileThenBuffer ==
    InRun => FileRows \o rows_buffer = produced

\* C8: the step for a symbol without a token appends exactly one row with error
\* "Token not found", the step whose call raises appends exactly one row with the
\* exception text, both with date, open, high, low, close and volume null; every
\* row of a successful call has error null; the run goes on to the decision step
\* of the same symbol and from there to the next symbol.
C8_FailuresAreRows ==
    [][/\ pc = "fetch" /\ pc' # "idle" =>
            LET s == Normalize(df_symbols.symbol[i + 1])
                added == SubSeq(rows_buffer', Len(rows_buffer) + 1, Len(rows_buffer'))
                nullrow(e) == [symbol |-> s, date |-> None, open |-> None,
                               high |-> None, low |-> None, close |-> None,
                               volume |-> None, error |-> e, count |-> 1]
            IN /\ pc' = "decide"
               /\ i' = i
               /\ SubSeq(rows_buffer', 1, Len(rows_buffer)) = rows_buffer
               /\ s \notin DOMAIN Instruments => added = <<nullrow("Token not found")>>
               /\ result'.kind = "raised" => added = <<nullrow(result'.error)>>
               /\ result'.kind = "ok" => \A k \in DOMAIN added : added[k].error = None
       /\ pc = "decide" /\ pc' # "idle" => i' = i + 1]_vars

\* the second symbol is about to start after the call for the first one raised
C8_Witness ==
    /\ pc = "fetch"
    /\ i = 1
    /\ result.kind = "raised"
    /\ produced # <<>>
    /\ produced[1].error \in ExcMessages

\* C9: the upload and fetch sections, and every historical_data call, are reached
\* only with an access token stored; the exchange is tried only with a
\* request_token and no access token; a successful exchange stores the token and
\* clears the query, a failed one leaves the token empty and stops the script;
\* a stored token is never cleared or replaced.
C9_LoginGate ==
    [][/\ section' \notin {"start", "login_stopped", "login_rerun"} => access_token' # None
       /\ pc' # "idle" => access_token' # None
       /\ df_symbols' # df_symbols => access_token' # None
       /\ calls' # calls /\ calls' # <<>> => access_token # None
       /\ exchanges' # exchanges =>
             /\ request_token # None
             /\ access_token = None
             /\ \/ access_token' # None /\ request_token' = None
                \/ access_token' = None /\ section' = "login_stopped"
       /\ access_token' # access_token => access_token = None /\ exchanges' # exchanges
       /\ access_token # None => access_token' = access_token]_vars

\* a fetch run under a token obtained by a second exchange, after a failed one
C9_Witness ==
    /\ pc = "fetch"
    /\ access_token # None
    /\ request_token = None
    /\ exchanges = 2

\* C10 (as stated): the autosave path, once chosen, stays the same, and a run
\* starts clean: until its first flush there is no file at the path, and when its
\* loop has ended the file holds the rows of this run alone.
C10_StartsClean ==
    [][/\ autosave_path # None => autosave_path' = autosave_path
       /\ pc = "idle" /\ pc' # "idle" => ~(autosave_path' \in DOMAIN disk')
       /\ pc' = "loop_done" =>
             (IF autosave_path' \in DOMAIN disk'
              THEN ReadCsv(disk'[autosave_path']) ELSE <<>>) = produced']_vars

====
